---------------------------- MODULE Spec2Model ----------------------------
(***************************************************************************)
(* The query-result cache of nodeapi: src/db/cache.py (the store, the key  *)
(* derivation and the cached_query decorator) and src/db/connection.py     *)
(* (execute_query, the decorated entry point).                             *)
(*                                                                         *)
(* The store is a Python dict, which keeps insertion order; it is a        *)
(* sequence of entries here, because sorted() is stable and the capacity   *)
(* eviction therefore breaks ties of expires_at by insertion order.        *)
(*                                                                         *)
(* Time is counted in ticks.  MAX_CACHE_SIZE and DEFAULT_TTL are scaled    *)
(* down from 1000 entries and 60 seconds: 10 is the smallest capacity for  *)
(* which int(MAX_CACHE_SIZE * 0.1) is not zero.                            *)
(***************************************************************************)
EXTENDS Integers, Sequences, FiniteSets, TLC

VARIABLES
    cache,      \* db.cache.cache: the entries, in insertion order
    now,        \* time.time()
    max_size,   \* the configured capacity (MAX_CACHE_SIZE)
    last,       \* what the last call was, what it returned and what it did
    threads,    \* the handler threads: where each is in its call, its locals
    dbconn      \* db.connection: connection_pool and the frame of the query
                \* function, from get_db_connection to its return

vars == <<cache, now, max_size, last, threads, dbconn>>

---------------------------------------------------------------------------
(* Configuration and bounds *)

MAX_CACHE_SIZE == 10

DEFAULT_TTL == 2

\* The clock stops here.
MaxTime == 1

\* Python's None: what get_from_cache returns for "absent", and a value a
\* query function may return as well.
NoneVal == "None"

\* Results a query function can return: rows, an empty list, None.
Results == {"rows", "[]", NoneVal}

\* Query texts of the calls explored, and of the warm-up (WarmQueries).
Queries == {1, 2}

\* Parameter values: a kind (None, tuple, list, dict, set) and the items in
\* the order they were given, each a pair <<name, value>>; name is 0 for the
\* elements of a tuple, list or set, and the names of a dict are numbered in
\* their sort order.
NoParams == [kind |-> "None", items |-> <<>>]
EmptyParams == [kind |-> "tuple", items |-> <<>>]
Params == {NoParams}

Seq_(kind, values) ==
    [kind |-> kind, items |-> [i \in 1..Len(values) |-> <<0, values[i]>>]]

Dict_(pairs) == [kind |-> "dict", items |-> pairs]

\* What a call may pass beyond query, params and bypass_cache.
NoKwargs == {}

\* Data and ttl values handed to set_in_cache directly.
SetResults == {"rows", "[]"}
SetTTLs == {0, 1, DEFAULT_TTL}

---------------------------------------------------------------------------
(* The store as an insertion-ordered dict *)

Has(c, k) == \E i \in 1..Len(c) : c[i].key = k

Idx(c, k) == CHOOSE i \in 1..Len(c) : c[i].key = k

Lookup(c, k) == c[Idx(c, k)]

\* del cache[k]
Del(c, k) == SelectSeq(c, LAMBDA e : e.key # k)

\* A slip: a key that is present keeps its old entry (a setdefault).
Put_keep(c, e) ==
    IF Has(c, e.key) THEN c ELSE Append(c, e)

\* cache[k] = e: an existing key keeps its place, a new one goes last.
Put(c, e) ==
    IF Has(c, e.key) THEN [c EXCEPT ![Idx(c, e.key)] = e] ELSE Append(c, e)

KeysOf(c) == {c[i].key : i \in 1..Len(c)}

---------------------------------------------------------------------------
(* cache_key *)

\* bool(params): None and the empty collections are falsy.
Truthy(p) == p.kind # "None" /\ Len(p.items) > 0

\* json.dumps raises TypeError for a set.
Serializable(p) == p.kind # "set"

\* sort_keys=True: the items of a dict ordered by name.
RECURSIVE InsertByName(_, _)
InsertByName(s, e) ==
    IF s = <<>> THEN <<e>>
    ELSE IF s[Len(s)][1] <= e[1]
         THEN Append(s, e)
         ELSE Append(InsertByName(SubSeq(s, 1, Len(s) - 1), e), s[Len(s)])

RECURSIVE SortedByName(_)
SortedByName(s) ==
    IF s = <<>> THEN <<>>
    ELSE InsertByName(SortedByName(SubSeq(s, 1, Len(s) - 1)), s[Len(s)])

RECURSIVE Flat(_, _)
Flat(s, named) ==
    IF s = <<>> THEN <<>>
    ELSE (IF named THEN <<s[1][1], s[1][2]>> ELSE <<s[1][2]>>)
             \o Flat(Tail(s), named)

\* The text json.dumps(params, sort_keys=True) writes: "null" for None, a
\* "[...]" array for a tuple and for a list alike, a "{...}" object with
\* sorted names for a dict.  The text is kept as its opening and its body.
json_dumps(p) ==
    CASE p.kind = "None" -> [open |-> "null", body |-> <<>>]
      [] p.kind \in {"tuple", "list"} ->
            [open |-> "[", body |-> Flat(p.items, FALSE)]
      [] p.kind = "dict" ->
            [open |-> "{", body |-> Flat(SortedByName(p.items), TRUE)]

\* A slip: sort_keys is missing, and a dict is written in insertion order.
params_str_unsorted(p) ==
    IF Truthy(p)
    THEN IF p.kind = "dict"
         THEN [open |-> "{", body |-> Flat(p.items, TRUE)]
         ELSE json_dumps(p)
    ELSE [open |-> "None", body |-> <<>>]

\* A slip: the sentinel is missing, and every value is written by json.dumps.
params_str_nosentinel(p) ==
    IF Serializable(p) THEN json_dumps(p)
    ELSE [open |-> "None", body |-> <<>>]

\* A slip: only the number of parameters goes into the key.
params_str_len(p) ==
    IF Truthy(p)
    THEN [open |-> json_dumps(p).open, body |-> <<Len(p.items)>>]
    ELSE [open |-> "None", body |-> <<>>]

\* json.dumps(params, sort_keys=True) if params else "None": an absent and an
\* empty parameter collection are both falsy.
params_str(p) ==
    IF Truthy(p) THEN json_dumps(p) ELSE [open |-> "None", body |-> <<>>]

\* json.dumps is reached, and raises.
KeyRaises(p) == Truthy(p) /\ ~Serializable(p)

\* The md5 digest of f"{query}:{params_str}", taken as injective: the key is
\* the digested string itself, as the pair of its two parts.
cache_key(q, p) == <<q, params_str(p)>>

---------------------------------------------------------------------------
(* get_from_cache *)

\* A slip: an expired entry is reported absent and left in the store.
get_from_cache_nopurge(c, k, t) ==
    IF Has(c, k) /\ t < Lookup(c, k).expires_at
    THEN [ret |-> Lookup(c, k).data, cache |-> c]
    ELSE [ret |-> NoneVal, cache |-> c]

\* A slip: the entry is still served at the instant it expires.
get_from_cache_inclusive(c, k, t) ==
    IF Has(c, k)
    THEN IF t <= Lookup(c, k).expires_at
         THEN [ret |-> Lookup(c, k).data, cache |-> c]
         ELSE [ret |-> NoneVal, cache |-> Del(c, k)]
    ELSE [ret |-> NoneVal, cache |-> c]

\* A slip: a lookup sweeps every expired entry out of the store.
get_from_cache_sweep(c, k, t) ==
    LET swept == SelectSeq(c, LAMBDA e : t < e.expires_at)
    IN  IF Has(swept, k)
        THEN [ret |-> Lookup(swept, k).data, cache |-> swept]
        ELSE [ret |-> NoneVal, cache |-> swept]

\* t is the value time.time() returns.  The result is the value returned and
\* the store afterwards.
get_from_cache(c, k, t) ==
    IF Has(c, k)
    THEN IF t < Lookup(c, k).expires_at
         THEN [ret |-> Lookup(c, k).data, cache |-> c]
         ELSE [ret |-> NoneVal, cache |-> Del(c, k)]
    ELSE [ret |-> NoneVal, cache |-> c]

---------------------------------------------------------------------------
(* set_in_cache *)

\* sorted(items, key=expires_at): stable, so equal keys keep their order.
RECURSIVE InsertSorted(_, _)
InsertSorted(s, e) ==
    IF s = <<>> THEN <<e>>
    ELSE IF s[Len(s)].expires_at <= e.expires_at
         THEN Append(s, e)
         ELSE Append(InsertSorted(SubSeq(s, 1, Len(s) - 1), e), s[Len(s)])

RECURSIVE SortedByExpires(_)
SortedByExpires(c) ==
    IF c = <<>> THEN <<>>
    ELSE InsertSorted(SortedByExpires(SubSeq(c, 1, Len(c) - 1)), c[Len(c)])

\* int(MAX_CACHE_SIZE * 0.1)
EvictCount(max) == (max * 1) \div 10

\* A slip: the oldest insertions are taken, the store unsorted.
items_to_remove_fifo(c, max) ==
    LET n == IF EvictCount(max) < Len(c) THEN EvictCount(max) ELSE Len(c)
    IN  SubSeq(c, 1, n)

\* sorted(...)[:int(MAX_CACHE_SIZE * 0.1)]: a slice takes what there is.
items_to_remove(c, max) ==
    LET s == SortedByExpires(c)
        n == IF EvictCount(max) < Len(s) THEN EvictCount(max) ELSE Len(s)
    IN  SubSeq(s, 1, n)

\* for k, _ in items_to_remove: del cache[k]
Evict(c, max) ==
    LET gone == KeysOf(items_to_remove(c, max))
    IN  SelectSeq(c, LAMBDA e : e.key \notin gone)

\* A slip: the entry is written first and the eviction runs after it, so
\* that the new entry can be its own victim.
set_in_cache_evict_after(c, k, d, ttl, t1, t2, max) ==
    LET c1 == Put(c, [key |-> k, data |-> d,
                      expires_at |-> t1 + ttl, created_at |-> t2])
    IN  [ret |-> TRUE,
         cache |-> IF Len(c) >= max THEN Evict(c1, max) ELSE c1]

\* A slip: no room is made when the key is in the store already.
set_in_cache_skip_present(c, k, d, ttl, t1, t2, max) ==
    LET c1 == IF Len(c) >= max /\ ~Has(c, k) THEN Evict(c, max) ELSE c
    IN  [ret |-> TRUE,
         cache |-> Put(c1, [key |-> k, data |-> d,
                            expires_at |-> t1 + ttl, created_at |-> t2])]

\* A slip: the eviction starts one entry too late.
set_in_cache_late(c, k, d, ttl, t1, t2, max) ==
    LET c1 == IF Len(c) > max THEN Evict(c, max) ELSE c
    IN  [ret |-> TRUE,
         cache |-> Put(c1, [key |-> k, data |-> d,
                            expires_at |-> t1 + ttl, created_at |-> t2])]

\* t1 and t2 are the two values time.time() returns, for expires_at and then
\* for created_at.
set_in_cache(c, k, d, ttl, t1, t2, max) ==
    LET c1 == IF Len(c) >= max THEN Evict(c, max) ELSE c
    IN  [ret |-> TRUE,
         cache |-> Put(c1, [key |-> k, data |-> d,
                            expires_at |-> t1 + ttl, created_at |-> t2])]

---------------------------------------------------------------------------
(* cached_query: the decorator's wrapper *)

\* A slip: the result of a miss is returned without being stored.
wrapper_nostore(c, q, p, bypass_cache, ttl, out, t0, t1, t2, max) ==
    IF bypass_cache
    THEN [ret |-> out.value, raised |-> out.raised, calls |-> 1, cache |-> c]
    ELSE LET key == cache_key(q, p)
             cached_result == get_from_cache(c, key, t0)
         IN  IF cached_result.ret # NoneVal
             THEN [ret |-> cached_result.ret, raised |-> FALSE, calls |-> 0,
                   cache |-> cached_result.cache]
             ELSE [ret |-> out.value, raised |-> out.raised, calls |-> 1,
                   cache |-> cached_result.cache]

\* A slip: the bypass is tested after the call, so that a bypassing call
\* refreshes the entry.
wrapper_bypass_stores(c, q, p, bypass_cache, ttl, out, t0, t1, t2, max) ==
    LET key == cache_key(q, p)
        cached_result == IF bypass_cache THEN [ret |-> NoneVal, cache |-> c]
                         ELSE get_from_cache(c, key, t0)
    IN  IF cached_result.ret # NoneVal
        THEN [ret |-> cached_result.ret, raised |-> FALSE, calls |-> 0,
              cache |-> cached_result.cache]
        ELSE IF out.raised
             THEN [ret |-> NoneVal, raised |-> TRUE, calls |-> 1,
                   cache |-> cached_result.cache]
             ELSE [ret |-> out.value, raised |-> FALSE, calls |-> 1,
                   cache |-> set_in_cache(cached_result.cache, key,
                                          out.value, ttl, t1, t2, max).cache]

\* A slip: when the parameters cannot be written, the key of the bare query
\* is used instead.
wrapper_fallback_key(c, q, p, bypass_cache, ttl, out, t0, t1, t2, max) ==
    IF bypass_cache
    THEN [ret |-> out.value, raised |-> out.raised, calls |-> 1, cache |-> c]
    ELSE LET key == IF KeyRaises(p) THEN cache_key(q, NoParams)
                                    ELSE cache_key(q, p)
             cached_result == get_from_cache(c, key, t0)
         IN  IF cached_result.ret # NoneVal
             THEN [ret |-> cached_result.ret, raised |-> FALSE, calls |-> 0,
                   cache |-> cached_result.cache]
             ELSE IF out.raised
                  THEN [ret |-> NoneVal, raised |-> TRUE, calls |-> 1,
                        cache |-> cached_result.cache]
                  ELSE [ret |-> out.value, raised |-> FALSE, calls |-> 1,
                        cache |-> set_in_cache(cached_result.cache, key,
                                               out.value, ttl, t1, t2, max).cache]

\* out is what func(query, params, **kwargs) does when it is called: it
\* returns out.value or it raises.  t0 is the clock at the lookup, t1 and t2
\* at the store.  calls counts the invocations of func.  A TypeError of
\* json.dumps leaves cache_key and the wrapper before anything else is done.
wrapper(c, q, p, bypass_cache, ttl, out, t0, t1, t2, max) ==
    IF bypass_cache
    THEN [ret |-> out.value, raised |-> out.raised, calls |-> 1, cache |-> c]
    ELSE IF KeyRaises(p)
    THEN [ret |-> NoneVal, raised |-> TRUE, calls |-> 0, cache |-> c]
    ELSE LET key == cache_key(q, p)
             cached_result == get_from_cache(c, key, t0)
         IN  IF cached_result.ret # NoneVal
             THEN [ret |-> cached_result.ret, raised |-> FALSE, calls |-> 0,
                   cache |-> cached_result.cache]
             ELSE IF out.raised
                  THEN [ret |-> NoneVal, raised |-> TRUE, calls |-> 1,
                        cache |-> cached_result.cache]
                  ELSE [ret |-> out.value, raised |-> FALSE, calls |-> 1,
                        cache |-> set_in_cache(cached_result.cache, key,
                                               out.value, ttl, t1, t2, max).cache]

\* What a query function can do: return a result, or raise.
AllOutcomes ==
    [raised : {FALSE}, value : Results] \cup {[raised |-> TRUE, value |-> NoneVal]}

\* Those explored for a function other than execute_query, whose calls
\* return the empty list.
Outcomes == {out \in AllOutcomes : out.value # "[]"}

---------------------------------------------------------------------------
(* execute_query: the body the decorator wraps *)

\* What the database does for one call.
DbOutcomes == {"no_connection", "query_error", "rows", "no_rows"}

DbFailed(db) == db \in {"no_connection", "query_error"}

\* @cached_query(ttl=60)
EXECUTE_QUERY_TTL == 2

\* A slip: the body takes **kwargs and does not look at them.
execute_query_any_kwargs(db, kwargs) ==
    [raised |-> FALSE, value |-> IF db = "rows" THEN "rows" ELSE "[]"]

\* No connection: return [].  An exception in the try block is logged and
\* results is still [].  The body never raises and never returns None.  The
\* signature is (query, params=None, bypass_cache=False): with any other
\* keyword the call itself raises TypeError and the body does not run.
execute_query(db, kwargs) ==
    IF kwargs # NoKwargs
    THEN [raised |-> TRUE, value |-> NoneVal]
    ELSE [raised |-> FALSE, value |-> IF db = "rows" THEN "rows" ELSE "[]"]

---------------------------------------------------------------------------
(* clear_cache, get_cache_stats *)

\* A slip: without the global statement the assignment binds a local name.
clear_cache_local(c) == c

\* global cache; cache = {}
clear_cache(c) == <<>>

\* sorted(..., reverse=True) is stable too: equal keys keep their order.
RECURSIVE InsertSortedDesc(_, _)
InsertSortedDesc(s, e) ==
    IF s = <<>> THEN <<e>>
    ELSE IF s[Len(s)].expires_at >= e.expires_at
         THEN Append(s, e)
         ELSE Append(InsertSortedDesc(SubSeq(s, 1, Len(s) - 1), e), s[Len(s)])

RECURSIVE SortedByExpiresDesc(_)
SortedByExpiresDesc(c) ==
    IF c = <<>> THEN <<>>
    ELSE InsertSortedDesc(SortedByExpiresDesc(SubSeq(c, 1, Len(c) - 1)), c[Len(c)])

\* [:10]
STATS_ITEMS == 10

\* k[:8] + "...": a prefix of the digest, which loses the rest of it; the
\* prefix kept here is the query part of the key.
KeyPrefix(k) == k[1]

\* A slip: reverse=True is missing, and the entries that expire first are
\* listed.
get_cache_stats_asc(c, t, max) ==
    LET s == SortedByExpires(c)
        n == IF STATS_ITEMS < Len(s) THEN STATS_ITEMS ELSE Len(s)
    IN  [size |-> Len(c),
         max_size |-> max,
         items |-> [i \in 1..n |->
                      [key |-> KeyPrefix(s[i].key),
                       expires_in |-> s[i].expires_at - t,
                       age |-> t - s[i].created_at]]]

get_cache_stats(c, t, max) ==
    LET s == SortedByExpiresDesc(c)
        n == IF STATS_ITEMS < Len(s) THEN STATS_ITEMS ELSE Len(s)
    IN  [size |-> Len(c),
         max_size |-> max,
         items |-> [i \in 1..n |->
                      [key |-> KeyPrefix(s[i].key),
                       expires_in |-> s[i].expires_at - t,
                       age |-> t - s[i].created_at]]]

NoStats == [size |-> 0, max_size |-> 0, items |-> <<>>]

---------------------------------------------------------------------------
(* db/connection.py: the pool, and the connection of one query *)

\* get_db_connection asks the pool this many times.
max_retries == 3

\* What connection_pool.getconn() gives: a connection object, which is
\* truthy, or an exception.
GetconnOutcomes == {"connection", "PoolError"}

\* One pass of the loop "while retry_count < max_retries": the connection
\* is returned when getconn gave a truthy one; the except branch counts the
\* attempt; a falsy connection without an exception leaves the counter alone.
pool_attempt(out, retry_count) ==
    IF out = "connection"
    THEN [returns |-> TRUE, conn |-> "pooled", retry_count |-> retry_count]
    ELSE IF out = "PoolError"
         THEN [returns |-> FALSE, conn |-> "None", retry_count |-> retry_count + 1]
         ELSE [returns |-> FALSE, conn |-> "None", retry_count |-> retry_count]

\* What connection_pool.putconn(conn) does: the pool takes back a connection
\* it handed out, unless the hand-back raises; it raises for a connection it
\* does not know, the directly created one.
PutconnOutcomes(conn) == IF conn = "pooled" THEN BOOLEAN ELSE {FALSE}

\* release_connection that gives up when the pool refuses the connection.
release_connection_noclose(connection_pool, conn, put_ok) ==
    IF connection_pool # "None" /\ conn # "None" /\ put_ok
    THEN [returned |-> 1, closed |-> 0, ret |-> TRUE]
    ELSE [returned |-> 0, closed |-> 0, ret |-> FALSE]

\* release_connection(conn): putconn when there is a pool and a connection,
\* and True when that worked; otherwise close the connection, and False.
release_connection(connection_pool, conn, put_ok) ==
    IF connection_pool # "None" /\ conn # "None" /\ put_ok
    THEN [returned |-> 1, closed |-> 0, ret |-> TRUE]
    ELSE [returned |-> 0,
          closed |-> IF conn # "None" THEN 1 ELSE 0,
          ret |-> FALSE]

\* The frame of the query function: the global connection_pool; the
\* statement it is at (pc); the locals retry_count, conn, cursor, results;
\* and what was seen of the call: attempts, how often getconn was called,
\* direct, how often psycopg2.connect, put, what putconn did, returned and
\* closed, how often the connection went back to the pool or was closed,
\* failed, the statement of the try block that raised.
NoCall(connection_pool) ==
    [connection_pool |-> connection_pool, pc |-> "idle", retry_count |-> 0,
     conn |-> "None", cursor |-> "None", results |-> "[]",
     attempts |-> 0, direct |-> 0, put |-> "none", returned |-> 0,
     closed |-> 0, failed |-> "none"]

---------------------------------------------------------------------------
(* The state machine *)

\* The state of key k in store c at time t, by the definition of a hit.
KeyState(c, k, t) ==
    IF ~Has(c, k) THEN "absent"
    ELSE IF t < Lookup(c, k).expires_at THEN "live" ELSE "expired"

\* The warm-up traffic: query texts 3, 4, ... stored one after the other at
\* time 0, the one stored last expiring first.
WarmQuery(j) == 2 + j
WarmTTL(j, max) == max - j

RECURSIVE Warm(_, _)
Warm(n, max) ==
    IF n = 0 THEN <<>>
    ELSE set_in_cache(Warm(n - 1, max), cache_key(WarmQuery(n), NoParams),
                      "rows", WarmTTL(n, max), 0, 0, max).cache

\* Keys that calls look up: those of Queries, and the warm-up entry that
\* expires first.
Keys == {cache_key(q, p) : q \in Queries, p \in Params}
GetKeys == Keys \cup {cache_key(WarmQuery(MAX_CACHE_SIZE - 1), NoParams)}

NoKey == <<0, params_str(NoParams)>>

\* last: the call (op, q, p, kwargs, key, bypass), what it gave back (ret,
\* raised, stats)
\* and what was seen of it: pre, the state of the key when the call began
\* (for clear_cache, "live" when some entry was live);
\* calls, how often the query function ran, fret what it returned and failed
\* whether it raised or the database failed; t and ttl, the clock and the ttl
\* of the entry the call stored; removed, how many keys left the store; ok,
\* what set_in_cache returned.
Idle == [op |-> "init", key |-> NoKey, ret |-> NoneVal, raised |-> FALSE,
         bypass |-> FALSE, calls |-> 0, fret |-> NoneVal, pre |-> "absent",
         t |-> 0, ttl |-> 0, failed |-> FALSE, removed |-> 0,
         stats |-> NoStats, ok |-> FALSE,
         q |-> 0, p |-> NoParams, kwargs |-> NoKwargs]

Removed(c, d) == Cardinality(KeysOf(c) \ KeysOf(d))

\* Handler threads.  Where the calls are taken one at a time, no thread is
\* inside a call.
Threads == {1, 2}

NoEntry == [key |-> NoKey, data |-> NoneVal, expires_at |-> 0, created_at |-> 0]

\* A thread: its call (op, key), the statement it is at (pc), the locals of
\* get_from_cache (cached_data), of the wrapper (result) and of set_in_cache
\* (items_to_remove, and the two clock readings of the entry it builds),
\* what the call returned (ret) or where it raised KeyError (err), how
\* often it ran the query function (calls), the rank of its store among
\* the stores of all threads (wrote), and whether a clear_cache returned
\* after its query function had run and before it stored (cleared).
IdleThread ==
    [op |-> "none", pc |-> "idle", key |-> NoKey, cached_data |-> NoEntry,
     result |-> NoneVal, items_to_remove |-> <<>>, expires_at |-> 0,
     created_at |-> 0, ret |-> NoneVal, err |-> "none", calls |-> 0,
     wrote |-> 0, cleared |-> FALSE]

NoThreads == [t \in Threads |-> IdleThread]

\* The process starts with an empty cache.
Init ==
    /\ max_size = MAX_CACHE_SIZE
    /\ cache = <<>>
    /\ now = 0
    /\ last = Idle
    /\ threads = NoThreads
    /\ dbconn = NoCall("pool")

\* The capacity runs start there too, or after the warm-up has left the
\* store one entry short of full.
InitCap ==
    /\ max_size = MAX_CACHE_SIZE
    /\ cache \in {<<>>, Warm(MAX_CACHE_SIZE - 1, MAX_CACHE_SIZE)}
    /\ now = 0
    /\ last = Idle
    /\ threads = NoThreads
    /\ dbconn = NoCall("pool")

Tick ==
    /\ now < MaxTime
    /\ now' = now + 1
    /\ last' = [Idle EXCEPT !.op = "tick"]
    /\ UNCHANGED <<cache, max_size, dbconn, threads>>

Get(k) ==
    LET r == get_from_cache(cache, k, now)
    IN  /\ cache' = r.cache
        /\ last' = [Idle EXCEPT !.op = "get", !.key = k, !.ret = r.ret,
                                !.pre = KeyState(cache, k, now),
                                !.removed = Removed(cache, r.cache)]
        /\ UNCHANGED <<now, max_size, dbconn, threads>>

\* The clock may advance between the two reads of time.time().
Set(k, d, ttl, t2) ==
    LET r == set_in_cache(cache, k, d, ttl, now, t2, max_size)
    IN  /\ cache' = r.cache
        /\ now' = t2
        /\ last' = [Idle EXCEPT !.op = "set", !.key = k, !.ret = d,
                                !.ok = r.ret,
                                !.pre = KeyState(cache, k, now),
                                !.t = now, !.ttl = ttl,
                                !.removed = Removed(cache, r.cache)]
        /\ UNCHANGED <<max_size, dbconn, threads>>

\* A call of a function decorated with cached_query(ttl).
CachedCall(op, q, p, bypass_cache, kwargs, ttl, out, failed, t2) ==
    LET r == wrapper(cache, q, p, bypass_cache, ttl, out, now, now, t2, max_size)
        stored == ~bypass_cache /\ r.calls = 1 /\ ~r.raised
        key == IF KeyRaises(p) THEN NoKey ELSE cache_key(q, p)
    IN  /\ cache' = r.cache
        /\ now' = IF stored THEN t2 ELSE now
        /\ last' = [Idle EXCEPT !.op = op, !.key = key,
                                !.q = q, !.p = p, !.kwargs = kwargs,
                                !.ret = r.ret, !.raised = r.raised,
                                !.bypass = bypass_cache, !.calls = r.calls,
                                !.fret = IF r.calls = 1 THEN out.value
                                                        ELSE NoneVal,
                                !.removed = Removed(cache, r.cache),
                                !.pre = KeyState(cache, key, now),
                                !.t = IF stored THEN now ELSE 0,
                                !.ttl = IF stored THEN ttl ELSE 0,
                                !.failed = failed /\ r.calls = 1]
        /\ UNCHANGED <<max_size, dbconn, threads>>

Clear ==
    /\ cache' = clear_cache(cache)
    /\ last' = [Idle EXCEPT !.op = "clear",
                            !.pre = IF \E i \in 1..Len(cache) :
                                          now < cache[i].expires_at
                                    THEN "live" ELSE "absent",
                            !.removed = Removed(cache, cache')]
    /\ UNCHANGED <<now, max_size, dbconn, threads>>

Stats ==
    /\ last' = [Idle EXCEPT !.op = "stats",
                            !.stats = get_cache_stats(cache, now, max_size)]
    /\ UNCHANGED <<cache, now, max_size, dbconn, threads>>

Later == {t \in {now, now + 1} : t <= MaxTime}

\* Any function decorated with cached_query(), whose ttl is DEFAULT_TTL.
Cached(q, p, bypass_cache, out, t2) ==
    CachedCall("cached", q, p, bypass_cache, NoKwargs, DEFAULT_TTL, out,
               out.raised, t2)

\* execute_query, decorated with cached_query(ttl=60).
ExecuteQuery(q, p, bypass_cache, kwargs, db, t2) ==
    CachedCall("execute_query", q, p, bypass_cache, kwargs, EXECUTE_QUERY_TTL,
               execute_query(db, kwargs),
               DbFailed(db) /\ kwargs = NoKwargs, t2)

Next ==
    \/ Tick
    \/ \E k \in Keys : Get(k)
    \/ \E k \in Keys, d \in SetResults, ttl \in SetTTLs, t2 \in Later :
          Set(k, d, ttl, t2)
    \/ \E q \in Queries, p \in Params, out \in Outcomes :
          Cached(q, p, TRUE, out, now)
    \/ \E q \in Queries, p \in Params, out \in Outcomes, t2 \in Later :
          Cached(q, p, FALSE, out, t2)
    \/ \E q \in Queries, p \in Params, db \in DbOutcomes :
          ExecuteQuery(q, p, TRUE, NoKwargs, db, now)
    \/ \E q \in Queries, p \in Params, db \in DbOutcomes, t2 \in Later :
          ExecuteQuery(q, p, FALSE, NoKwargs, db, t2)
    \/ Clear
    \/ Stats

Spec == Init /\ [][Next]_vars

\* The capacity runs: the same operations on a store at its capacity, with
\* fewer input values each.
CapResults == {"rows"}
CapOutcomes == {[raised |-> FALSE, value |-> NoneVal],
                [raised |-> TRUE, value |-> NoneVal]}
CapDbOutcomes == {"rows", "query_error"}

NextCap ==
    \/ Tick
    \/ \E k \in GetKeys : Get(k)
    \/ \E k \in Keys, d \in CapResults, ttl \in SetTTLs, t2 \in Later :
          Set(k, d, ttl, t2)
    \/ \E q \in Queries, p \in Params, out \in CapOutcomes :
          Cached(q, p, TRUE, out, now)
    \/ \E q \in Queries, p \in Params, out \in CapOutcomes, t2 \in Later :
          Cached(q, p, FALSE, out, t2)
    \/ \E q \in Queries, p \in Params, db \in CapDbOutcomes :
          ExecuteQuery(q, p, TRUE, NoKwargs, db, now)
    \/ \E q \in Queries, p \in Params, db \in CapDbOutcomes, t2 \in Later :
          ExecuteQuery(q, p, FALSE, NoKwargs, db, t2)
    \/ Clear
    \/ Stats

SpecCap == InitCap /\ [][NextCap]_vars

---------------------------------------------------------------------------
(* The key derivation and the call's arguments *)

\* Parameter values of the calls: None and the empty collections, the same
\* two elements as a tuple, as a list and in the other order, one mapping
\* built in its two insertion orders and another mapping, and a set, which
\* json.dumps cannot write.
KeyParams ==
    {NoParams, EmptyParams, Seq_("list", <<>>), Dict_(<<>>), Seq_("set", <<>>),
     Seq_("tuple", <<1, 2>>), Seq_("list", <<1, 2>>), Seq_("tuple", <<2, 1>>),
     Dict_(<< <<1, 1>>, <<2, 2>> >>), Dict_(<< <<2, 2>>, <<1, 1>> >>),
     Dict_(<< <<1, 2>>, <<2, 1>> >>),
     Seq_("set", <<1>>)}

\* execute_query(query, params, ttl=1)
TtlKwargs == {{<<"ttl", 1>>}}

\* cache_key(query, params), called on its own.
KeyOf(q, p) ==
    /\ last' = [Idle EXCEPT !.op = "cache_key", !.q = q, !.p = p,
                            !.raised = KeyRaises(p),
                            !.key = IF KeyRaises(p) THEN NoKey
                                    ELSE cache_key(q, p)]
    /\ UNCHANGED <<cache, now, max_size, dbconn, threads>>

NextKey ==
    \/ \E q \in Queries, p \in KeyParams : KeyOf(q, p)
    \/ \E p \in KeyParams :
          ExecuteQuery(1, p, FALSE, NoKwargs, "rows", now)
    \/ \E p \in KeyParams, kwargs \in TtlKwargs, bypass_cache \in BOOLEAN :
          ExecuteQuery(1, p, bypass_cache, kwargs, "rows", now)
    \/ Clear

SpecKey == Init /\ [][NextKey]_vars

---------------------------------------------------------------------------
(* get_cache_stats on stores larger than its listing *)

\* The listing is cut at 10 entries while the capacity is 1000; here the
\* capacity leaves two entries to cut.
StatsCapacity == STATS_ITEMS + 2

\* The ttl patterns of the stores drawn.
MaxPattern == 4

\* n entries stored at time 0, entry j with ttl 1 + (j * m mod (MaxPattern + 1)).
RECURSIVE StatsStore(_, _)
StatsStore(n, m) ==
    IF n = 0 THEN <<>>
    ELSE set_in_cache(StatsStore(n - 1, m), cache_key(WarmQuery(n), NoParams),
                      "rows", 1 + ((n * m) % (MaxPattern + 1)), 0, 0,
                      StatsCapacity).cache

StatsKeys == {cache_key(WarmQuery(1), NoParams)}

InitStats ==
    /\ max_size = StatsCapacity
    /\ cache \in {StatsStore(n, m) : n \in 0..StatsCapacity, m \in 1..MaxPattern}
    /\ now = 0
    /\ last = Idle
    /\ threads = NoThreads
    /\ dbconn = NoCall("pool")

NextStats ==
    \/ Tick
    \/ \E k \in StatsKeys : Get(k)
    \/ Stats

SpecStats == InitStats /\ [][NextStats]_vars

---------------------------------------------------------------------------
(* Handlers running at once                                                *)
(*                                                                         *)
(* Each thread serves one request: execute_query through the wrapper, or   *)
(* the clear endpoint.  A thread can be switched between any two           *)
(* statements; one step is one access to the dict (a membership test, a    *)
(* subscript read, a del, an assignment, the sorted() copy) or one read of *)
(* the clock.  Each statement looks the global name cache up anew, so a    *)
(* clear_cache in between makes the next statement see the empty dict.     *)

\* The store at the start: empty; one entry, for query 1, which expires at
\* time 1; or full, that entry being the one that expires first.
ShortTTL == DEFAULT_TTL - 1

OneEntry ==
    set_in_cache(<<>>, cache_key(1, NoParams), "rows", ShortTTL, 0, 0,
                 MAX_CACHE_SIZE).cache

FullStore ==
    set_in_cache(Warm(MAX_CACHE_SIZE - 1, MAX_CACHE_SIZE + 1),
                 cache_key(1, NoParams), "rows", ShortTTL, 0, 0,
                 MAX_CACHE_SIZE).cache

\* What execute_query returns to the wrapper: rows, or the empty list.
ConcResults == {execute_query(db, NoKwargs).value : db \in DbOutcomes}

InitConc ==
    /\ max_size = MAX_CACHE_SIZE
    /\ cache \in {<<>>, OneEntry, FullStore}
    /\ now = 0
    /\ last = Idle
    /\ threads = NoThreads
    /\ dbconn = NoCall("pool")

At(t, pc) == threads[t].pc = pc

\* The call of thread t ends with a KeyError raised in func.
KeyError(t, func) ==
    threads' = [threads EXCEPT ![t].pc = "done", ![t].err = func]

\* wrapper(query): bypass_cache is False, key = cache_key(query, params).
StartExecuteQuery(t, q) ==
    /\ At(t, "idle")
    /\ threads' = [threads EXCEPT ![t].op = "execute_query",
                                  ![t].key = cache_key(q, NoParams),
                                  ![t].pc = "get_test"]
    /\ UNCHANGED <<cache, now, max_size, dbconn, last>>

\* Where a thread holds the result of its query function and has not yet
\* stored it.
HoldsResult(t) ==
    threads[t].pc \in {"set_check", "set_select", "set_delete", "set_expires",
                       "set_created", "set_store"}

\* The clear endpoint: cache = {}.
ClearCache(t) ==
    /\ At(t, "idle")
    /\ cache' = clear_cache(cache)
    /\ threads' = [u \in Threads |->
                     IF u = t
                     THEN [threads[u] EXCEPT !.op = "clear", !.pc = "done"]
                     ELSE [threads[u] EXCEPT !.cleared = @ \/ HoldsResult(u)]]
    /\ UNCHANGED <<now, max_size, dbconn, last>>

\* get_from_cache: if key in cache; otherwise return None, and the wrapper
\* goes on to call func.
GetTest(t) ==
    /\ At(t, "get_test")
    /\ threads' = [threads EXCEPT ![t].pc = IF Has(cache, threads[t].key)
                                            THEN "get_read" ELSE "call"]
    /\ UNCHANGED <<cache, now, max_size, dbconn, last>>

\* cached_data = cache[key]
GetRead(t) ==
    /\ At(t, "get_read")
    /\ IF Has(cache, threads[t].key)
       THEN threads' = [threads EXCEPT
                           ![t].cached_data = Lookup(cache, threads[t].key),
                           ![t].pc = "get_expiry"]
       ELSE KeyError(t, "get_from_cache")
    /\ UNCHANGED <<cache, now, max_size, dbconn, last>>

\* if time.time() < cached_data['expires_at']: return cached_data['data'],
\* which the wrapper returns unless it is None.
GetExpiry(t) ==
    /\ At(t, "get_expiry")
    /\ threads' =
          IF now < threads[t].cached_data.expires_at
          THEN IF threads[t].cached_data.data # NoneVal
               THEN [threads EXCEPT ![t].ret = threads[t].cached_data.data,
                                    ![t].pc = "done"]
               ELSE [threads EXCEPT ![t].pc = "call"]
          ELSE [threads EXCEPT ![t].pc = "get_delete"]
    /\ UNCHANGED <<cache, now, max_size, dbconn, last>>

\* del cache[key]; return None.
GetDelete(t) ==
    /\ At(t, "get_delete")
    /\ IF Has(cache, threads[t].key)
       THEN /\ cache' = Del(cache, threads[t].key)
            /\ threads' = [threads EXCEPT ![t].pc = "call"]
       ELSE /\ KeyError(t, "get_from_cache")
            /\ UNCHANGED cache
    /\ UNCHANGED <<now, max_size, dbconn, last>>

\* result = func(query, params)
CallFunc(t, r) ==
    /\ At(t, "call")
    /\ threads' = [threads EXCEPT ![t].result = r,
                                  ![t].calls = threads[t].calls + 1,
                                  ![t].pc = "set_check"]
    /\ UNCHANGED <<cache, now, max_size, dbconn, last>>

\* set_in_cache: if len(cache) >= MAX_CACHE_SIZE
SetCheck(t) ==
    /\ At(t, "set_check")
    /\ threads' = [threads EXCEPT ![t].pc = IF Len(cache) >= max_size
                                            THEN "set_select"
                                            ELSE "set_expires"]
    /\ UNCHANGED <<cache, now, max_size, dbconn, last>>

\* items_to_remove = sorted(cache.items(), ...)[:int(MAX_CACHE_SIZE * 0.1)]
SetSelect(t) ==
    LET items == items_to_remove(cache, max_size)
    IN  /\ At(t, "set_select")
        /\ threads' = [threads EXCEPT
                           ![t].items_to_remove =
                               [i \in 1..Len(items) |-> items[i].key],
                           ![t].pc = IF items = <<>> THEN "set_expires"
                                                     ELSE "set_delete"]
        /\ UNCHANGED <<cache, now, max_size, dbconn, last>>

\* for k, _ in items_to_remove: del cache[k]
SetDelete(t) ==
    LET k == Head(threads[t].items_to_remove)
        rest == Tail(threads[t].items_to_remove)
    IN  /\ At(t, "set_delete")
        /\ IF Has(cache, k)
           THEN /\ cache' = Del(cache, k)
                /\ threads' = [threads EXCEPT
                                   ![t].items_to_remove = rest,
                                   ![t].pc = IF rest = <<>> THEN "set_expires"
                                                            ELSE "set_delete"]
           ELSE /\ KeyError(t, "set_in_cache")
                /\ UNCHANGED cache
        /\ UNCHANGED <<now, max_size, dbconn, last>>

\* 'expires_at': time.time() + ttl
SetExpires(t) ==
    /\ At(t, "set_expires")
    /\ threads' = [threads EXCEPT ![t].expires_at = now + EXECUTE_QUERY_TTL,
                                  ![t].pc = "set_created"]
    /\ UNCHANGED <<cache, now, max_size, dbconn, last>>

\* 'created_at': time.time()
SetCreated(t) ==
    /\ At(t, "set_created")
    /\ threads' = [threads EXCEPT ![t].created_at = now,
                                  ![t].pc = "set_store"]
    /\ UNCHANGED <<cache, now, max_size, dbconn, last>>

\* cache[key] = {...}; return True; the wrapper returns result.
SetStore(t) ==
    /\ At(t, "set_store")
    /\ cache' = Put(cache, [key |-> threads[t].key,
                            data |-> threads[t].result,
                            expires_at |-> threads[t].expires_at,
                            created_at |-> threads[t].created_at])
    /\ threads' = [threads EXCEPT
                      ![t].wrote = 1 + Cardinality({u \in Threads :
                                                      threads[u].wrote > 0}),
                      ![t].ret = threads[t].result,
                      ![t].pc = "done"]
    /\ UNCHANGED <<now, max_size, dbconn, last>>

NextConc ==
    \/ Tick
    \/ \E t \in Threads, q \in Queries : StartExecuteQuery(t, q)
    \/ \E t \in Threads : ClearCache(t)
    \/ \E t \in Threads : GetTest(t)
    \/ \E t \in Threads : GetRead(t)
    \/ \E t \in Threads : GetExpiry(t)
    \/ \E t \in Threads : GetDelete(t)
    \/ \E t \in Threads, r \in ConcResults : CallFunc(t, r)
    \/ \E t \in Threads : SetCheck(t)
    \/ \E t \in Threads : SetSelect(t)
    \/ \E t \in Threads : SetDelete(t)
    \/ \E t \in Threads : SetExpires(t)
    \/ \E t \in Threads : SetCreated(t)
    \/ \E t \in Threads : SetStore(t)

SpecConc == InitConc /\ [][NextConc]_vars

---------------------------------------------------------------------------
(* A capacity below 10 *)

\* MAX_CACHE_SIZE configured so that int(MAX_CACHE_SIZE * 0.1) is 0.
SmallCapacity == 5

\* Enough query texts to go two entries beyond the capacity.
SmallKeys == {cache_key(q, NoParams) : q \in 1..(SmallCapacity + 2)}

InitSmall ==
    /\ max_size = SmallCapacity
    /\ cache = <<>>
    /\ now = 0
    /\ last = Idle
    /\ threads = NoThreads
    /\ dbconn = NoCall("pool")

NextSmall ==
    \/ \E k \in SmallKeys : Set(k, "rows", DEFAULT_TTL, now)
    \/ Clear

SpecSmall == InitSmall /\ [][NextSmall]_vars

---------------------------------------------------------------------------
(* The endpoint handlers and the rows they are given                       *)
(*                                                                         *)
(* The wrapper hands set_in_cache the list func returned and returns that  *)
(* same list (cache.py:91-96); on a hit it returns cached_data['data']     *)
(* (cache.py:34 and 88).  Nothing is copied: what a non-bypass call        *)
(* returns is the object the entry of its key holds.  The rows are dicts   *)
(* (RealDictCursor), and list_transactions and get_transaction assign to   *)
(* their fields.                                                           *)

\* The rows after tx['event_count'] = ... or event['raw_data'] = ...
MutatedRows == "rows, fields overwritten"

\* The handler overwrites fields of the rows its call returned.  After a
\* bypassing call the rows are in no entry.
MutateRows ==
    /\ last.op = "execute_query" /\ ~last.raised /\ last.ret = "rows"
    /\ cache' = IF ~last.bypass /\ Has(cache, last.key)
                THEN [cache EXCEPT ![Idx(cache, last.key)].data = MutatedRows]
                ELSE cache
    /\ last' = [Idle EXCEPT !.op = "mutate", !.key = last.key,
                            !.bypass = last.bypass]
    /\ UNCHANGED <<now, max_size, dbconn, threads>>

NextRows ==
    \/ Tick
    \/ \E q \in Queries, bypass_cache \in BOOLEAN, db \in DbOutcomes :
          ExecuteQuery(q, NoParams, bypass_cache, NoKwargs, db, now)
    \/ MutateRows
    \/ Clear

SpecRows == Init /\ [][NextRows]_vars

---------------------------------------------------------------------------
(* The connection of a query                                               *)
(*                                                                         *)
(* The query function, connection.py:134-167, one statement at a time; the *)
(* database and the pool answer each statement with success or with an     *)
(* exception.  init_connection_pool has run once at import and may have    *)
(* failed, which leaves connection_pool None.                              *)

InitConn ==
    /\ max_size = MAX_CACHE_SIZE
    /\ cache = <<>>
    /\ now = 0
    /\ last = Idle
    /\ threads = NoThreads
    /\ dbconn \in {NoCall("None"), NoCall("pool")}

ConnAt(pc) == dbconn.pc = pc

\* The query function is entered: conn = get_db_connection() begins.
StartQuery ==
    /\ ConnAt("idle")
    /\ dbconn' = [dbconn EXCEPT !.pc = "get_db_connection"]
    /\ UNCHANGED <<cache, now, max_size, last, threads>>

\* get_db_connection up to its loop: without a pool, init_connection_pool
\* is tried once more, and None is returned when it fails.
EnterGetDbConnection(init_ok) ==
    /\ ConnAt("get_db_connection")
    /\ dbconn' =
         IF dbconn.connection_pool # "None"
         THEN [dbconn EXCEPT !.pc = "while"]
         ELSE IF init_ok
              THEN [dbconn EXCEPT !.connection_pool = "pool", !.pc = "while"]
              ELSE [dbconn EXCEPT !.conn = "None", !.pc = "got"]
    /\ UNCHANGED <<cache, now, max_size, last, threads>>

\* One pass of the loop: connection_pool.getconn().
PoolAttempt(out) ==
    /\ ConnAt("while")
    /\ dbconn.retry_count < max_retries
    /\ LET a == pool_attempt(out, dbconn.retry_count)
       IN  dbconn' = [dbconn EXCEPT !.attempts = @ + 1,
                                    !.retry_count = a.retry_count,
                                    !.conn = a.conn,
                                    !.pc = IF a.returns THEN "got" ELSE "while"]
    /\ UNCHANGED <<cache, now, max_size, last, threads>>

\* After the loop: psycopg2.connect, and the connection or None.
DirectConnect(ok) ==
    /\ ConnAt("while")
    /\ dbconn.retry_count >= max_retries
    /\ dbconn' = [dbconn EXCEPT !.direct = @ + 1,
                                !.conn = IF ok THEN "direct" ELSE "None",
                                !.pc = "got"]
    /\ UNCHANGED <<cache, now, max_size, last, threads>>

\* if not conn: return []; otherwise cursor = None, results = [].
CheckConn ==
    /\ ConnAt("got")
    /\ dbconn' = [dbconn EXCEPT !.cursor = "None", !.results = "[]",
                                !.pc = IF dbconn.conn = "None" THEN "return"
                                       ELSE "cursor"]
    /\ UNCHANGED <<cache, now, max_size, last, threads>>

\* cursor = conn.cursor(cursor_factory=RealDictCursor)
Cursor(ok) ==
    /\ ConnAt("cursor")
    /\ dbconn' = IF ok
                 THEN [dbconn EXCEPT !.cursor = "open", !.pc = "timeout"]
                 ELSE [dbconn EXCEPT !.failed = "cursor", !.pc = "finally"]
    /\ UNCHANGED <<cache, now, max_size, last, threads>>

\* cursor.execute("SET statement_timeout = 30000;")
SetTimeout(ok) ==
    /\ ConnAt("timeout")
    /\ dbconn' = IF ok
                 THEN [dbconn EXCEPT !.pc = "execute"]
                 ELSE [dbconn EXCEPT !.failed = "timeout", !.pc = "finally"]
    /\ UNCHANGED <<cache, now, max_size, last, threads>>

\* cursor.execute(query, params)
Execute(ok) ==
    /\ ConnAt("execute")
    /\ dbconn' = IF ok
                 THEN [dbconn EXCEPT !.pc = "fetch"]
                 ELSE [dbconn EXCEPT !.failed = "execute", !.pc = "finally"]
    /\ UNCHANGED <<cache, now, max_size, last, threads>>

FetchOutcomes == {"no description", "rows", "raises"}

\* if cursor.description: results = cursor.fetchall()
Fetch(out) ==
    /\ ConnAt("fetch")
    /\ dbconn' = [dbconn EXCEPT
                    !.results = IF out = "rows" THEN "rows" ELSE @,
                    !.failed = IF out = "raises" THEN "fetch" ELSE @,
                    !.pc = "finally"]
    /\ UNCHANGED <<cache, now, max_size, last, threads>>

\* finally: if cursor: cursor.close()
Finally ==
    /\ ConnAt("finally")
    /\ dbconn' = [dbconn EXCEPT
                    !.cursor = IF @ = "open" THEN "closed" ELSE @,
                    !.pc = "release"]
    /\ UNCHANGED <<cache, now, max_size, last, threads>>

\* finally: release_connection(conn)
ReleaseConnection(put_ok) ==
    /\ ConnAt("release")
    /\ LET r == release_connection(dbconn.connection_pool, dbconn.conn, put_ok)
       IN  dbconn' = [dbconn EXCEPT
                        !.put = IF put_ok THEN "ok" ELSE "PoolError",
                        !.returned = @ + r.returned,
                        !.closed = @ + r.closed,
                        !.pc = "return"]
    /\ UNCHANGED <<cache, now, max_size, last, threads>>

\* return results: the frame is gone, the pool stays.
Return ==
    /\ ConnAt("return")
    /\ dbconn' = NoCall(dbconn.connection_pool)
    /\ UNCHANGED <<cache, now, max_size, last, threads>>

NextConn ==
    \/ StartQuery
    \/ \E init_ok \in BOOLEAN : EnterGetDbConnection(init_ok)
    \/ \E out \in GetconnOutcomes : PoolAttempt(out)
    \/ \E ok \in BOOLEAN : DirectConnect(ok)
    \/ CheckConn
    \/ \E ok \in BOOLEAN : Cursor(ok)
    \/ \E ok \in BOOLEAN : SetTimeout(ok)
    \/ \E ok \in BOOLEAN : Execute(ok)
    \/ \E out \in FetchOutcomes : Fetch(out)
    \/ Finally
    \/ \E put_ok \in PutconnOutcomes(dbconn.conn) : ReleaseConnection(put_ok)
    \/ Return

SpecConn == InitConn /\ [][NextConn]_vars

---------------------------------------------------------------------------
(* The claims *)

CachedOps == {"cached", "execute_query"}

\* A non-bypass call of a decorated function.
CachedLookup(l) == l.op \in CachedOps /\ ~l.bypass

\* C1: between operations the store never holds more than max_size entries,
\* whatever sequence of get, set, clear, stats and cached calls ran, from the
\* empty store on (with int(max_size * 0.1) >= 1, as configured).
C1_SizeBound == Len(cache) <= max_size

\* A cached execute_query missed while the store was full: a key was evicted
\* and the store is full again.
C1_Witness ==
    /\ last.op = "execute_query" /\ ~last.bypass /\ last.calls = 1
    /\ last.pre = "absent"
    /\ last.removed = EvictCount(max_size)
    /\ Len(cache) = max_size

\* C2: get_from_cache returns data only from an entry with now < expires_at,
\* and a non-bypass cached call that does not run the query function returns
\* the data of such an entry.
C2_NoExpiredRead ==
    [][ /\ (last'.op = "get" /\ last'.ret # NoneVal) =>
              /\ Has(cache, last'.key)
              /\ now < Lookup(cache, last'.key).expires_at
              /\ Lookup(cache, last'.key).data = last'.ret
        /\ (CachedLookup(last') /\ last'.calls = 0) =>
              /\ Has(cache, last'.key)
              /\ now < Lookup(cache, last'.key).expires_at
              /\ Lookup(cache, last'.key).data = last'.ret ]_vars

\* A lookup of an entry that had expired, which returned nothing.
C2_Witness ==
    last.op = "get" /\ last.pre = "expired" /\ last.ret = NoneVal

\* C3 as claimed: a non-bypass call that finds a live entry for its key
\* returns the entry's data and does not run the query function, whatever
\* the stored result is.
C3_HitNeverExecutes ==
    [][ (CachedLookup(last') /\ last'.pre = "live") =>
            /\ last'.calls = 0
            /\ last'.ret = Lookup(cache, last'.key).data ]_vars

\* The query function of the call raised.
FuncRaised(l) ==
    \/ l.op = "cached" /\ l.failed
    \/ l.op = "execute_query" /\ l.kwargs # NoKwargs /\ l.calls = 1

\* The ttl of the decorator behind the call.
TtlOf(l) == IF l.op = "execute_query" THEN EXECUTE_QUERY_TTL ELSE DEFAULT_TTL

\* C4: a non-bypass call whose key is absent or expired runs the query
\* function exactly once; when the function returns, the call returns that
\* value, the store holds it under the call's key with expires_at = now + ttl,
\* and a get_from_cache on the key right after the call returns it.
C4_MissExecutesAndStores ==
    [][ (CachedLookup(last') /\ last'.pre \in {"absent", "expired"}) =>
            /\ last'.calls = 1
            /\ ~FuncRaised(last') =>
                  /\ ~last'.raised
                  /\ last'.ret = last'.fret
                  /\ Has(cache', last'.key)
                  /\ Lookup(cache', last'.key).data = last'.fret
                  /\ Lookup(cache', last'.key).expires_at = now + TtlOf(last')
                  /\ get_from_cache(cache', last'.key, now').ret = last'.ret
      ]_vars

\* A call found its entry expired, ran the function and stored the rows.
C4_Witness ==
    /\ CachedLookup(last) /\ last.pre = "expired" /\ last.calls = 1
    /\ last.ret = "rows"
    /\ Has(cache, last.key) /\ Lookup(cache, last.key).data = "rows"

\* C5 as claimed: when the query function raises in a non-bypass call, the
\* call raises, the store holds no entry for the call's key afterwards, every
\* entry that was live before is still there unchanged, and a get_from_cache
\* on the key returns None.
C5_RaiseLeavesNoEntry ==
    [][ (CachedLookup(last') /\ FuncRaised(last')) =>
            /\ last'.raised
            /\ ~Has(cache', last'.key)
            /\ \A i \in 1..Len(cache) :
                  now < cache[i].expires_at =>
                      \E j \in 1..Len(cache') : cache'[j] = cache[i]
            /\ get_from_cache(cache', last'.key, now').ret = NoneVal ]_vars

\* C6 as claimed: when the database fails inside a non-bypass execute_query,
\* the caller gets the failure and no entry is stored for the call's key.
C6_FailureNotMemoized ==
    (last.op = "execute_query" /\ ~last.bypass /\ last.failed) =>
        (last.raised /\ ~Has(cache, last.key))

\* C7: a bypassing call runs the query function, gives back what the
\* function gave (its result or its exception) and leaves the store as it was.
C7_BypassFrame ==
    [][ (last'.op \in CachedOps /\ last'.bypass) =>
            /\ last'.calls = 1
            /\ last'.ret = last'.fret
            /\ last'.raised = FuncRaised(last')
            /\ cache' = cache ]_vars

\* A bypassing call returned something else than the live entry of its key.
C7_Witness ==
    /\ last.op \in CachedOps /\ last.bypass /\ last.pre = "live"
    /\ Has(cache, last.key)
    /\ Lookup(cache, last.key).data # last.ret

\* The call stored an entry under its key.
Stored(l) == l.op = "set" \/ (CachedLookup(l) /\ l.calls = 1 /\ ~l.raised)

\* C8: after set_in_cache(k, d, ttl) the store holds d under k, and a
\* get_from_cache(k) at any time before expires_at returns d; an entry stays
\* as it is until a later store on its key or its removal; a get_from_cache on
\* a live key returns the entry's data.  So a lookup returns the data of the
\* most recent set of the key, while the entry is live and in the store.
C8_RoundTrip ==
    [][ /\ last'.op = "set" =>
              /\ Has(cache', last'.key)
              /\ Lookup(cache', last'.key).data = last'.ret
              /\ Lookup(cache', last'.key).expires_at = now + last'.ttl
              /\ \A t \in now'..(now + last'.ttl) :
                    t < now + last'.ttl =>
                        get_from_cache(cache', last'.key, t).ret = last'.ret
        /\ \A i \in 1..Len(cache) :
              (Has(cache', cache[i].key)
                 /\ ~(Stored(last') /\ last'.key = cache[i].key)) =>
                  Lookup(cache', cache[i].key) = cache[i]
        /\ (last'.op = "get" /\ last'.pre = "live") =>
              last'.ret = Lookup(cache, last'.key).data ]_vars

\* A lookup, after the clock moved, returned the empty list that was set,
\* with another entry in the store.
C8_Witness ==
    /\ last.op = "get" /\ last.pre = "live" /\ last.ret = "[]"
    /\ now > Lookup(cache, last.key).created_at
    /\ Len(cache) = 2

\* C9: get_from_cache on an expired entry returns None and removes that entry
\* and no other; on an absent or a live key it leaves the store as it is.
C9_LazyPurge ==
    [][ last'.op = "get" =>
          IF last'.pre = "expired"
          THEN /\ last'.ret = NoneVal
               /\ Len(cache') = Len(cache) - 1
               /\ ~Has(cache', last'.key)
               /\ \A i \in 1..Len(cache) :
                     cache[i].key # last'.key =>
                         \E j \in 1..Len(cache') : cache'[j] = cache[i]
          ELSE cache' = cache ]_vars

\* A lookup purged its expired entry and left the other entry in the store.
C9_Witness ==
    /\ last.op = "get" /\ last.pre = "expired" /\ last.removed = 1
    /\ Len(cache) = 1

ExpOf(c, k) == Lookup(c, k).expires_at

\* C10: a set_in_cache that finds size >= max_size removes
\* floor(max_size * 0.1) entries, none of which expires later than an entry it
\* keeps (when the key being set is itself among them it is stored anew, as
\* the last entry, and one key fewer leaves the store); one that finds
\* size < max_size removes nothing.  The entries kept are unchanged.
C10_Eviction ==
    [][ last'.op = "set" =>
          LET k == last'.key
              n == max_size \div 10
              gone == KeysOf(cache) \ KeysOf(cache')
              kept == (KeysOf(cache) \ gone) \ {k}
          IN  /\ IF Len(cache) >= max_size
                 THEN /\ \A g \in gone, s \in kept :
                            ExpOf(cache, g) <= ExpOf(cache, s)
                      /\ \/ Cardinality(gone) = n
                         \/ /\ Cardinality(gone) = n - 1
                            /\ Has(cache, k)
                            /\ \A s \in kept : ExpOf(cache, k) <= ExpOf(cache, s)
                            /\ cache'[Len(cache')].key = k
                 ELSE gone = {}
              /\ \A s \in kept : Lookup(cache', s) = Lookup(cache, s) ]_vars

\* A set of a new key found the store full: one key left, the store is full.
C10_Witness ==
    /\ last.op = "set" /\ last.pre = "absent"
    /\ last.removed = max_size \div 10
    /\ Len(cache) = max_size


\* C11: called on its own, set_in_cache returns True, and when it has
\* returned the key is in the store with the data given and with
\* expires_at = now + ttl, whether the store was full and an eviction ran
\* or not.
C11_SetSucceeds ==
    last.op = "set" =>
        /\ last.ok
        /\ Has(cache, last.key)
        /\ Lookup(cache, last.key).data = last.ret
        /\ Lookup(cache, last.key).expires_at = last.t + last.ttl

\* A set with ttl 0 of a new key into the full store: the eviction ran, and
\* the new entry, which expires before every other, is there.
C11_Witness ==
    /\ last.op = "set" /\ last.pre = "absent" /\ last.ttl = 0
    /\ last.removed = EvictCount(max_size)
    /\ Has(cache, last.key)
    /\ \A i \in 1..Len(cache) :
          Lookup(cache, last.key).expires_at <= cache[i].expires_at


\* C12: when clear_cache has returned the store is empty and get_from_cache
\* returns None for every key, whatever the store held; a key comes back only
\* by a store on that key, and until then a lookup of it returns None and a
\* non-bypass cached call of it runs the query function.
C12_ClearEmpties ==
    [][ /\ last'.op = "clear" =>
              /\ cache' = <<>>
              /\ \A k \in Keys : get_from_cache(cache', k, now').ret = NoneVal
        /\ (last.op = "clear" /\ last'.op = "get") => last'.ret = NoneVal
        /\ (last.op = "clear" /\ CachedLookup(last')) => last'.calls = 1
        /\ \A k \in Keys :
              (~Has(cache, k) /\ Has(cache', k)) =>
                  (Stored(last') /\ last'.key = k)
        /\ (last'.op = "get" /\ ~Has(cache, last'.key)) =>
              last'.ret = NoneVal
        /\ (CachedLookup(last') /\ ~Has(cache, last'.key)) =>
              last'.calls = 1 ]_vars

\* clear_cache emptied a store of two entries, one of them live.
C12_Witness ==
    /\ last.op = "clear" /\ last.pre = "live" /\ last.removed = 2
    /\ cache = <<>>


\* C13: get_cache_stats leaves the store as it is, expired entries included;
\* it reports the number of entries (expired ones counted) as size, the
\* configured capacity as max_size, and at most 10 entries: those with the
\* largest expires_at, in descending order.
C13_StatsReadOnly ==
    [][ last'.op = "stats" =>
          LET st == last'.stats
              n == Len(st.items)
              Above(v) == {j \in 1..Len(cache) : cache[j].expires_at > v}
              Listed(v) == {i \in 1..n : st.items[i].expires_in + now > v}
          IN  /\ cache' = cache
              /\ st.size = Len(cache)
              /\ st.max_size = max_size
              /\ n = IF Len(cache) < 10 THEN Len(cache) ELSE 10
              /\ \A i \in 1..(n - 1) :
                    st.items[i].expires_in >= st.items[i + 1].expires_in
              /\ \A v \in (-1)..(MaxTime + MaxPattern + 1) :
                    Cardinality(Listed(v)) =
                        IF Cardinality(Above(v)) < n
                        THEN Cardinality(Above(v)) ELSE n ]_vars

\* Statistics of a store of more than 10 entries, an expired one among
\* them and not all of them listed.
C13_Witness ==
    /\ last.op = "stats"
    /\ last.stats.size > 10
    /\ Len(last.stats.items) = 10
    /\ \E i \in 1..Len(cache) : cache[i].expires_at <= now
    /\ Len(cache) = last.stats.size


\* A call that derived a key: cache_key on its own, or a non-bypass call of
\* a decorated function, whose json.dumps did not raise.
Keyed(l) == (l.op = "cache_key" \/ CachedLookup(l)) /\ ~KeyRaises(l.p)

\* C14: cache_key gives the same key for the same query and parameters and
\* changes no state; for one query text, two parameter values whose
\* serialized strings (the json.dumps text, or the sentinel) differ get
\* different keys, and so do two non-empty values whose json.dumps texts
\* differ; two query texts never get the same key.
C14_Discriminating ==
    [][ /\ last'.op = "cache_key" => cache' = cache
        /\ (Keyed(last) /\ Keyed(last')) =>
              /\ (last.q = last'.q /\ last.p = last'.p) => last.key = last'.key
              /\ last.q # last'.q => last.key # last'.key
              /\ (last.q = last'.q /\ params_str(last.p) # params_str(last'.p))
                      => last.key # last'.key
              /\ (/\ last.q = last'.q
                  /\ Truthy(last.p) /\ Truthy(last'.p)
                  /\ json_dumps(last.p) # json_dumps(last'.p)) =>
                      last.key # last'.key ]_vars

\* cache_key was called for the other query text with the parameters of an
\* entry in the store, and its key is not in the store.
C14_Witness ==
    /\ last.op = "cache_key" /\ last.q = 2
    /\ last.p = Seq_("tuple", <<1, 2>>)
    /\ Has(cache, cache_key(1, last.p))
    /\ ~Has(cache, last.key)


Sentinel == [open |-> "None", body |-> <<>>]

\* An empty tuple, list, dict or set.
EmptyCollection(p) == p.kind # "None" /\ Len(p.items) = 0

\* C15 as claimed: for None and for an empty collection cache_key uses the
\* sentinel; for one query text the key for None differs from the key for an
\* empty collection, and neither is the key of a non-empty value.
C15_SentinelDisambiguates ==
    [][ (Keyed(last) /\ Keyed(last') /\ last.q = last'.q) =>
            /\ ~Truthy(last'.p) => last'.key = <<last'.q, Sentinel>>
            /\ (last.p = NoParams /\ EmptyCollection(last'.p)) =>
                    last.key # last'.key
            /\ (~Truthy(last.p) /\ Truthy(last'.p)) =>
                    last.key # last'.key ]_vars

\* C15, amended: for None and for an empty collection cache_key uses the
\* sentinel, so that for one query text None and every empty collection get
\* the same key; that key is not the key of any non-empty value.
C15_SentinelShared ==
    [][ (Keyed(last) /\ Keyed(last') /\ last.q = last'.q) =>
            /\ ~Truthy(last'.p) => last'.key = <<last'.q, Sentinel>>
            /\ (last.p = NoParams /\ EmptyCollection(last'.p)) =>
                    last.key = last'.key
            /\ (~Truthy(last.p) /\ Truthy(last'.p)) =>
                    last.key # last'.key ]_vars

\* execute_query with an empty tuple was served the only entry of the store,
\* which has the key of the call without parameters.
C15_Witness ==
    /\ last.op = "execute_query" /\ last.p = EmptyParams
    /\ last.calls = 0 /\ last.ret = "rows"
    /\ Len(cache) = 1
    /\ cache[1].key = cache_key(last.q, NoParams)


ItemSet(p) == {p.items[i] : i \in 1..Len(p.items)}

\* C16: for one query text, a mapping gets the same key in whatever order
\* its names were inserted, and two sequences of the same elements in a
\* different order get different keys, hence entries of their own.
C16_OrderSensitivity ==
    [][ (Keyed(last) /\ Keyed(last') /\ last.q = last'.q) =>
            /\ (/\ last.p.kind = "dict" /\ last'.p.kind = "dict"
                /\ ItemSet(last.p) = ItemSet(last'.p)) =>
                    last.key = last'.key
            /\ (/\ last.p.kind \in {"tuple", "list"}
                /\ last'.p.kind \in {"tuple", "list"}
                /\ ItemSet(last.p) = ItemSet(last'.p)
                /\ Len(last.p.items) = Len(last'.p.items)
                /\ last.p.items # last'.p.items) =>
                    /\ last.key # last'.key
                    /\ (CachedLookup(last') /\ ~Has(cache, last'.key)) =>
                          last'.calls = 1 ]_vars

\* execute_query with the mapping built in the other insertion order was
\* served from the store, which holds an entry for the sequence (1, 2) and
\* another for (2, 1).
C16_Witness ==
    /\ last.op = "execute_query"
    /\ last.p = Dict_(<< <<2, 2>>, <<1, 1>> >>)
    /\ last.calls = 0 /\ last.ret = "rows"
    /\ Has(cache, cache_key(last.q, Seq_("tuple", <<1, 2>>)))
    /\ Has(cache, cache_key(last.q, Seq_("tuple", <<2, 1>>)))
    /\ Len(cache) = 3


\* The ttl a call passed by keyword.
TtlArg(kwargs) == (CHOOSE x \in kwargs : x[1] = "ttl")[2]

\* A non-bypass execute_query that found no live entry under its key.
ExecuteQueryMiss(l) ==
    /\ l.op = "execute_query" /\ ~l.bypass /\ ~KeyRaises(l.p)
    /\ l.pre # "live"

\* C17 as claimed: the entry a call of execute_query stores expires at
\* insertion time + the ttl passed in the call, and at insertion time + 60
\* seconds (EXECUTE_QUERY_TTL) when the call passes none.
C17_PerCallTtl ==
    [][ ExecuteQueryMiss(last') =>
            /\ Has(cache', last'.key)
            /\ Lookup(cache', last'.key).expires_at =
                  now + (IF last'.kwargs = NoKwargs THEN EXECUTE_QUERY_TTL
                         ELSE TtlArg(last'.kwargs)) ]_vars

\* C17, amended: the ttl of the decorator is the lifetime of the entry: a
\* call of execute_query without a ttl stores an entry that expires at
\* insertion time + 60 seconds (EXECUTE_QUERY_TTL), live before that instant
\* and not from it on; a call cannot choose the ttl: with a ttl keyword a
\* hit leaves the entry as it is, and a miss hands the keyword to
\* execute_query, which raises and stores nothing.
C17_DecoratorTtl ==
    [][ /\ ExecuteQueryMiss(last') =>
              IF last'.kwargs = NoKwargs
              THEN /\ Has(cache', last'.key)
                   /\ Lookup(cache', last'.key).expires_at =
                         now + EXECUTE_QUERY_TTL
                   /\ \A t \in now..(now + EXECUTE_QUERY_TTL + 1) :
                         (get_from_cache(cache', last'.key, t).ret # NoneVal)
                             <=> (t < now + EXECUTE_QUERY_TTL)
              ELSE /\ last'.raised /\ last'.calls = 1
                   /\ ~Has(cache', last'.key)
        /\ (/\ last'.op = "execute_query" /\ ~last'.bypass
            /\ last'.kwargs # NoKwargs /\ last'.pre = "live") =>
              (cache' = cache /\ last'.calls = 0) ]_vars

\* execute_query was called with ttl=1 for a key that was not in the store:
\* the call raised and the key is still not there.
C17_Witness ==
    /\ last.op = "execute_query" /\ ~last.bypass
    /\ last.kwargs # NoKwargs /\ TtlArg(last.kwargs) = 1
    /\ last.pre = "absent" /\ last.raised /\ last.calls = 1
    /\ ~Has(cache, last.key)
    /\ Len(cache) = 1


\* C18: when json.dumps cannot write the parameters of a non-bypass cached
\* call, the call raises: the query function is not run, no key is made up
\* for the call, and the store is as it was.
C18_KeyFailsFast ==
    [][ (CachedLookup(last') /\ KeyRaises(last'.p)) =>
            /\ last'.raised
            /\ last'.calls = 0
            /\ cache' = cache ]_vars

\* execute_query with a set as its parameters raised, while the store held
\* the entry of the same query without parameters.
C18_Witness ==
    /\ last.op = "execute_query" /\ ~last.bypass
    /\ last.p = Seq_("set", <<1>>)
    /\ last.kwargs = NoKwargs
    /\ last.raised /\ last.calls = 0
    /\ Has(cache, cache_key(last.q, NoParams))


\* Thread t ran execute_query through the wrapper, missed, ran the query
\* function and stored its result.
MissedAndStored(t) ==
    /\ threads[t].op = "execute_query" /\ threads[t].pc = "done"
    /\ threads[t].wrote > 0

\* C19: when two non-bypass calls for the same query and parameters both
\* miss, both run the query function and both store; when both have
\* returned, the store holds one entry for the key, with the result of the
\* call that stored later, and each call has returned the result of its own
\* run of the function.
C19_LastWriterWins ==
    \A t \in Threads, u \in Threads :
        (/\ MissedAndStored(t) /\ MissedAndStored(u)
         /\ threads[t].key = threads[u].key
         /\ threads[t].wrote < threads[u].wrote) =>
            /\ Cardinality({i \in 1..Len(cache) :
                               cache[i].key = threads[u].key}) = 1
            /\ Lookup(cache, threads[u].key).data = threads[u].result
            /\ threads[t].calls = 1 /\ threads[u].calls = 1
            /\ threads[t].ret = threads[t].result
            /\ threads[u].ret = threads[u].result
            /\ threads[t].err = "none" /\ threads[u].err = "none"

\* Two calls for query 1 both missed on the empty store; thread 1 got rows
\* and stored them first, thread 2 got the empty list and stored it second,
\* and the store holds the empty list.
C19_Witness ==
    /\ MissedAndStored(1) /\ MissedAndStored(2)
    /\ threads[1].key = threads[2].key
    /\ threads[1].result = "rows" /\ threads[2].result = "[]"
    /\ threads[1].wrote = 1 /\ threads[2].wrote = 2
    /\ threads[1].ret = "rows"
    /\ Len(cache) = 1 /\ cache[1].data = "[]"

\* C20 as claimed: whatever the other handler does between the statements
\* of get_from_cache (a clear_cache, an eviction, the delete of the same
\* expired key by another get_from_cache), get_from_cache ends by returning
\* data or None and never with a KeyError.
C20_GetNeverRaises ==
    \A t \in Threads : threads[t].err # "get_from_cache"


\* C21 as claimed: whatever the other handler does between the statements
\* of set_in_cache (its own eviction of the same victims, a clear_cache, the
\* delete of an expired victim by a get_from_cache), set_in_cache ends by
\* storing its key and never with a KeyError on a key that is gone.
C21_SetNeverRaises ==
    \A t \in Threads : threads[t].err # "set_in_cache"


\* No thread is inside a call.
AtRest == \A t \in Threads : threads[t].pc \in {"idle", "done"}

\* C22 as claimed: however the size check, the eviction and the insertion
\* of the handlers' set_in_cache calls interleave, the store holds at most
\* max_size entries once every call has ended.
C22_SizeBoundAtRest == AtRest => Len(cache) <= max_size


\* C23 as claimed: with int(max_size * 0.1) = 0 a set_in_cache at capacity
\* evicts nothing and the store goes one entry beyond max_size, and never
\* further, whatever sets of distinct keys follow.
C23_ExceedsByOne ==
    /\ EvictCount(max_size) = 0
    /\ (last.op = "set" /\ Len(cache) > max_size) => last.removed = 0
    /\ Len(cache) <= max_size + 1


\* The store on which the set_in_cache of call l worked: the store of the
\* call itself, or what the wrapper's lookup left of store c.
BeforeSet(c, l, t) ==
    IF l.op = "set" THEN c ELSE get_from_cache(c, l.key, t).cache

\* C24: an entry leaves the store only by a lookup of its own key after it
\* expired, by the capacity eviction of a set_in_cache, or by clear_cache;
\* the clock, get_cache_stats, bypassing calls and lookups of other keys
\* leave every entry in the store, expired or not.
C24_RemovalEvents ==
    [][ /\ \A k \in KeysOf(cache) \ KeysOf(cache') :
              \/ /\ last'.op = "get" \/ CachedLookup(last')
                 /\ last'.key = k
                 /\ Lookup(cache, k).expires_at <= now
              \/ /\ Stored(last')
                 /\ Len(BeforeSet(cache, last', now)) >= max_size
                 /\ k \in KeysOf(items_to_remove(BeforeSet(cache, last', now),
                                                max_size))
              \/ last'.op = "clear"
        /\ (\/ last'.op \in {"tick", "stats"}
            \/ last'.op \in CachedOps /\ last'.bypass) => cache' = cache
        /\ last'.op = "get" =>
              \A i \in 1..Len(cache) :
                  cache[i].key # last'.key =>
                      \E j \in 1..Len(cache') : cache'[j] = cache[i]
      ]_vars

\* A lookup of a live key left an expired entry of another key in the full
\* store.
C24_Witness ==
    /\ last.op = "get" /\ last.pre = "live"
    /\ Len(cache) = max_size
    /\ \E i \in 1..Len(cache) :
          cache[i].key # last.key /\ cache[i].expires_at <= now


\* C25 as claimed: the data of an entry changes only when a set_in_cache
\* replaces the entry; what a handler does with the rows a cached call
\* returned changes no entry, and a hit returns what the query function
\* returned when the entry was stored.
C25_ReplacedOnlyBySet ==
    [][ /\ \A i \in 1..Len(cache) :
              (/\ Has(cache', cache[i].key)
               /\ Lookup(cache', cache[i].key).data # cache[i].data) =>
                  (Stored(last') /\ last'.key = cache[i].key)
        /\ (CachedLookup(last') /\ last'.calls = 0) =>
              last'.ret \in Results ]_vars


\* C26 as claimed: the entry a set_in_cache has stored has
\* expires_at = created_at + ttl, ttl being the value given to that set,
\* also when the clock moves between the two readings set_in_cache takes.
C26_ExpiresIsCreatedPlusTtl ==
    Stored(last) =>
        /\ Has(cache, last.key)
        /\ Lookup(cache, last.key).expires_at =
              Lookup(cache, last.key).created_at + last.ttl


\* C27 as claimed: a lookup that finds a live entry, by get_from_cache or
\* by a non-bypass cached call, leaves the store as it is: the entry keeps
\* its data, created_at and expires_at, and no other entry is touched.
C27_HitFrame ==
    [][ (/\ last'.op = "get" \/ CachedLookup(last')
         /\ last'.pre = "live") => cache' = cache ]_vars


\* C28 as claimed: once clear_cache has returned, the store never holds an
\* entry whose query ran before that clear: a call that missed and ran its
\* query before the clear does not store the result after it.
C28_NoStoreAcrossClear ==
    \A t \in Threads :
        ~(/\ threads[t].cleared /\ threads[t].wrote > 0
          /\ Has(cache, threads[t].key)
          /\ Lookup(cache, threads[t].key).data = threads[t].result)


\* C29: a set_in_cache on a key that is in the store, the store being at
\* its capacity, evicts int(max_size * 0.1) entries all the same: those
\* that expire first, the old entry of the key possibly among them.  After
\* it the key holds the new data, and the size is max_size minus the number
\* evicted, plus one when the key itself was evicted and came back.
C29_OverwriteAtCapacity ==
    [][ (/\ last'.op = "set" /\ Has(cache, last'.key)
         /\ Len(cache) >= max_size) =>
            LET gone == KeysOf(cache) \ KeysOf(cache')
                own == Cardinality(gone) < EvictCount(max_size)
                others == {k \in KeysOf(cache') : k # last'.key}
            IN  /\ Cardinality(gone) \in
                      {EvictCount(max_size) - 1, EvictCount(max_size)}
                /\ \A g \in gone, k \in others :
                      ExpOf(cache, g) <= ExpOf(cache, k)
                /\ own => \A k \in others :
                      ExpOf(cache, last'.key) <= ExpOf(cache, k)
                /\ Has(cache', last'.key)
                /\ Lookup(cache', last'.key).data = last'.ret
                /\ Len(cache') = max_size - EvictCount(max_size)
                                   + (IF own THEN 1 ELSE 0) ]_vars

\* A set on a key that was in the full store evicted another entry and left
\* the store one short of its capacity.
C29_Witness ==
    /\ last.op = "set" /\ last.pre # "absent"
    /\ last.removed = EvictCount(max_size)
    /\ Len(cache) = max_size - EvictCount(max_size)
    /\ Has(cache, last.key)

\* C30: every connection the query function acquired is released exactly
\* once before it returns, whatever statement of the try block failed: it
\* went back to the pool when putconn took it, and was closed when putconn
\* raised, as it does for the directly created connection; while the
\* function works with the connection it is not yet released, and without
\* a connection nothing is released and [] is returned.  get_db_connection
\* asks the pool at most max_retries times, every pass that stays in the
\* loop having counted, and connects directly at most once, only after
\* max_retries failed passes; it returns a connection or None.
C30_ReleasedOnce ==
    LET released == dbconn.returned + dbconn.closed
        held == dbconn.conn # "None"
    IN  /\ dbconn.attempts <= max_retries
        /\ dbconn.direct <= 1
        /\ dbconn.direct = 1 => dbconn.attempts = max_retries
        /\ ConnAt("while") => dbconn.retry_count = dbconn.attempts
        /\ dbconn.conn = "pooled" => dbconn.direct = 0
        /\ dbconn.conn = "direct" => dbconn.direct = 1
        /\ dbconn.pc \in {"cursor", "timeout", "execute", "fetch", "finally",
                          "release"} => held /\ released = 0
        /\ (ConnAt("return") /\ held) =>
              /\ released = 1
              /\ dbconn.returned = 1 <=> dbconn.put = "ok"
              /\ dbconn.conn = "direct" => dbconn.closed = 1
              /\ dbconn.cursor # "open"
        /\ (ConnAt("return") /\ ~held) =>
              released = 0 /\ dbconn.results = "[]"

\* The pool failed three times, the direct connection was made, creating
\* the cursor failed, and the connection was closed before the return.
C30_Witness ==
    /\ ConnAt("return")
    /\ dbconn.conn = "direct"
    /\ dbconn.attempts = max_retries
    /\ dbconn.failed = "cursor"
    /\ dbconn.closed = 1
    /\ dbconn.returned = 0

===========================================================================
